---- MODULE Spec2Model ----
(***************************************************************************)
(* Model of the external-tool lifecycle manager (AnchoreCliService) and of *)
(* the two scan invokers (SyftService.analyse, GrypeService.analyse).      *)
(*                                                                         *)
(* Strings are sequences of tokens ("sha256:", "a", ".", "json", ...), so  *)
(* that slicing, concatenation, prefix and suffix tests are computed.      *)
(* An optional value is a set with at most one element: {} is undefined.   *)
(* A path is a record [dir, base]; the disk is a function from the paths   *)
(* of the files that exist to their contents.                              *)
(***************************************************************************)
EXTENDS Integers, Sequences, FiniteSets, TLC

VARIABLES
  platform,   \* node:process platform / envApi of the host, fixed for a run
  cliTool,    \* per tool: the registered CliTool {version, path}, {} before init
  version,    \* per tool: the local `version` of init(), captured by the installer
  selected,   \* per tool: the local `selected` of init(), captured by the installer
  fs,         \* the files on disk: path -> content
  dirs,       \* the directories created on disk
  last,       \* observation of the most recent call: operation, outcome, effects
  requests    \* the calls in flight: per slot, where the call is suspended

vars == <<platform, cliTool, version, selected, fs, dirs, last, requests>>

-----------------------------------------------------------------------------
(* Bounds *)

MaxMatches == 2
MaxRequests == 2

-----------------------------------------------------------------------------
(* Generic helpers *)

None == {}
Some(x) == {x}
The(s) == CHOOSE x \in s : TRUE

\* JavaScript truthiness of an optional string: undefined and "" are falsy
Truthy(s) == s # None /\ s # Some(<<>>)

startsWith(s, p) == Len(s) >= Len(p) /\ SubSeq(s, 1, Len(p)) = p
endsWith(s, p) == Len(s) >= Len(p) /\ SubSeq(s, Len(s) - Len(p) + 1, Len(s)) = p

\* String.prototype.slice(n) / substring(n)
slice(s, n) == SubSeq(s, n + 1, Len(s))

Range(s) == {s[i] : i \in 1..Len(s)}

\* the sequences of at most n elements of S
RECURSIVE SeqsUpTo(_, _)
SeqsUpTo(S, n) ==
  IF n = 0 THEN {<<>>}
  ELSE LET shorter == SeqsUpTo(S, n - 1)
       IN shorter \cup {Append(q, x) : q \in {r \in shorter : Len(r) = n - 1}, x \in S}

\* the concatenation of a sequence of strings
RECURSIVE concat(_)
concat(ss) == IF ss = <<>> THEN <<>> ELSE Head(ss) \o concat(Tail(ss))

Path(d, b) == [dir |-> d, base |-> b]

Tool == {"syft", "grype"}
Platforms == {"linux", "darwin", "win32"}
nodeArch == "x64"

isWindows == platform = "win32"
isLinux == platform = "linux"

-----------------------------------------------------------------------------
(* AnchoreCliService: paths *)

storageDir(t) == <<t>>
binaryBaseName(t) == <<t>>

binaryName(t, win) == IF win THEN binaryBaseName(t) \o <<".", "exe">> ELSE binaryBaseName(t)

binaryPath(t) == Path(storageDir(t), binaryName(t, isWindows))

-----------------------------------------------------------------------------
(* The observation record *)

NoLast ==
  [op |-> "none", tool |-> "none", err |-> "none", ret |-> None,
   arg |-> None,          \* the input file the call was given
   file |-> None,         \* check: the path its SBOM scan returned
   result |-> None,       \* check: the result its vulnerability scan returned
   execs |-> <<>>,        \* the process executions performed, in order
   api |-> 0,             \* number of upstream release-API calls performed
   pre |-> None,          \* what the call found: recorded tool, or destination content
   dest |-> None,         \* the destination / archive path the call worked on
   shown |-> None,        \* the choices offered by showQuickPick, when shown
   listed |-> None,       \* the URI podman lists for the target connection, when looked up
   steps |-> {}]          \* the side-effecting steps that were performed

\* the slots of the calls in flight, and a free slot
Slots == 1..MaxRequests

Idle ==
  [op |-> "idle", pc |-> "idle", connection |-> None, imageId |-> None, sbom |-> None,
   obs |-> NoLast]

-----------------------------------------------------------------------------
(* AnchoreCliService.getInstalledVersion *)

\* stdout of `<binary> --version`, as the list of its whitespace-separated
\* words after trim(); the empty list is empty (or blank) output
Stdouts == { <<>>, << <<"1">> >>, << <<"syft">>, <<"1">> >> }
Probes(world) ==
  IF world = "nominal"
  THEN {[ok |-> FALSE, stdout |-> <<>>], [ok |-> TRUE, stdout |-> << <<"syft">>, <<"1">> >>]}
  ELSE {[ok |-> FALSE, stdout |-> <<>>]} \cup {[ok |-> TRUE, stdout |-> w] : w \in Stdouts}
NoProbe == [ok |-> FALSE, stdout |-> <<>>]

\* `text`: with at most one word, the trimmed text is that word (or "")
textOf(words) == IF words = <<>> THEN <<>> ELSE words[1]

getInstalledVersion_NoFallback(words) ==
  IF Len(words) >= 2 THEN Some(words[2]) ELSE None

\* const [, version] = text.split(/\s+/); return version ?? text
getInstalledVersion(words) ==
  IF Len(words) >= 2 THEN Some(words[2]) ELSE Some(textOf(words))

-----------------------------------------------------------------------------
(* AnchoreCliService.init *)

\* path: version ? this.binaryPath : undefined
RegisteredPath(t, v) == IF Truthy(v) THEN Some(binaryPath(t)) ELSE None

init(t, world) ==
  /\ cliTool[t] = None
  /\ LET hasBin == binaryPath(t) \in DOMAIN fs IN
     \E probe \in (IF hasBin THEN Probes(world) ELSE {NoProbe}) :
       LET v == IF hasBin /\ probe.ok THEN getInstalledVersion(probe.stdout) ELSE None
       IN /\ version' = [version EXCEPT ![t] = v]
          /\ dirs' = dirs \cup {storageDir(t)}
          /\ cliTool' = [cliTool EXCEPT ![t] =
                           Some([version |-> v, path |-> RegisteredPath(t, v)])]
          /\ last' = [NoLast EXCEPT !.op = "init", !.tool = t,
                        !.execs = IF hasBin THEN <<[bin |-> binaryPath(t), arg |-> "--version"]>>
                                  ELSE <<>>,
                        !.pre = IF hasBin THEN Some(probe) ELSE None]
  /\ UNCHANGED <<platform, selected, fs>>

-----------------------------------------------------------------------------
(* AnchoreCliService.listReleases / promptUserForVersion / selectVersion *)

DefaultLimits == 10

Rel(i, tag, pre) == [id |-> i, name |-> None, tag_name |-> tag, prerelease |-> pre]

UpstreamLists ==
  { <<>>,
    << Rel(2, <<"v", "2">>, FALSE), Rel(1, <<"v", "1">>, FALSE) >>,
    << Rel(3, <<"v", "3">>, TRUE), Rel(2, <<"v", "2">>, FALSE), Rel(1, <<"v", "1">>, FALSE) >> }

ReleaseFetches(world) ==
  IF world = "nominal" THEN {[ok |-> TRUE, data |-> << Rel(1, <<"v", "1">>, FALSE) >>]}
  ELSE {[ok |-> FALSE, data |-> <<>>]} \cup {[ok |-> TRUE, data |-> d] : d \in UpstreamLists}

metadataOf(release) ==
  [label |-> IF release.name # None THEN The(release.name) ELSE release.tag_name,
   tag |-> release.tag_name,
   id |-> release.id]

listReleases_CutFirst(data, limits) ==
  LET notPre(r) == ~r.prerelease
      cut == IF Len(data) > limits THEN SubSeq(data, 1, limits) ELSE data
      kept == SelectSeq(cut, notPre)
  IN [i \in 1..Len(kept) |-> metadataOf(kept[i])]

listReleases(data, limits) ==
  LET notPre(r) == ~r.prerelease
      kept == SelectSeq(data, notPre)
      cut == IF Len(kept) > limits THEN SubSeq(kept, 1, limits) ELSE kept
  IN [i \in 1..Len(cut) |-> metadataOf(cut[i])]

\* promptUserForVersion up to the prompt: the choices passed to showQuickPick
promptUserForVersion(data, currentTagVersion) ==
  LET other(r) == r.tag # The(currentTagVersion)
      all == listReleases(data, DefaultLimits)
  IN IF Truthy(currentTagVersion) THEN SelectSeq(all, other) ELSE all

\* const current = version; // already resolved above
currentOf(t) == version[t]

\* current ? `v${current}` : undefined
tagOf(current) == IF Truthy(current) THEN Some(<<"v">> \o The(current)) ELSE None

assignSelected_Clearing(sel, t, outcome) == [sel EXCEPT ![t] = outcome]

\* selected = await this.promptUserForVersion(...): nothing is assigned when
\* the awaited promise rejects (outcome None)
assignSelected(sel, t, outcome) ==
  IF outcome = None THEN sel ELSE [sel EXCEPT ![t] = outcome]

selectVersion(t, world) ==
  /\ cliTool[t] # None
  /\ \E fetch \in ReleaseFetches(world) :
       IF ~fetch.ok
       THEN /\ last' = [NoLast EXCEPT !.op = "selectVersion", !.tool = t, !.api = 1,
                          !.err = "upstream error", !.pre = selected[t]]
            /\ selected' = assignSelected(selected, t, None)
       ELSE LET items == promptUserForVersion(fetch.data, tagOf(currentOf(t))) IN
            \E pick \in 0..Len(items) :
              IF pick = 0
              THEN /\ last' = [NoLast EXCEPT !.op = "selectVersion", !.tool = t, !.api = 1,
                                 !.err = "No version selected", !.shown = Some(items),
                                 !.pre = selected[t]]
                   /\ selected' = assignSelected(selected, t, None)
              ELSE /\ selected' = assignSelected(selected, t, Some(items[pick]))
                   /\ last' = [NoLast EXCEPT !.op = "selectVersion", !.tool = t, !.api = 1,
                                 !.shown = Some(items), !.pre = selected[t],
                                 !.ret = Some(slice(items[pick].tag, 1))]
  /\ UNCHANGED <<platform, cliTool, version, fs, dirs>>

-----------------------------------------------------------------------------
(* AnchoreCliService.getAssetName *)

osOf(plat) == IF plat = "win32" THEN "windows" ELSE IF plat = "darwin" THEN "darwin" ELSE "linux"

extensionOf(plat) == IF plat = "win32" THEN <<"zip">> ELSE <<"tar", ".", "gz">>

architectureOf_Raw(arch) ==
  CASE arch = "x64" -> "amd64"
    [] OTHER -> arch

architectureOf(arch) ==
  CASE arch = "x64" -> "amd64"
    [] arch = "arm64" -> "arm64"
    [] arch = "ppc64" -> "ppc64le"
    [] arch = "s390x" -> "s390x"
    [] OTHER -> arch

getAssetName(t, v, plat, arch) ==
  binaryBaseName(t) \o <<"_">> \o v \o <<"_", osOf(plat), "_", architectureOf(arch), ".">>
    \o extensionOf(plat)

-----------------------------------------------------------------------------
(* AnchoreCliService.download *)

Asset(i, n) == [id |-> i, name |-> n]

\* what listReleaseAssets answers for a release: an error, or a list of assets
AssetFetches(world, t, v) ==
  LET whole == << Asset(9, <<"checksums", ".", "txt">>),
                  Asset(7, getAssetName(t, v, platform, nodeArch)) >>
  IN IF world = "nominal" THEN {[ok |-> TRUE, data |-> whole]}
     ELSE {[ok |-> FALSE, data |-> <<>>]} \cup
          {[ok |-> TRUE, data |-> d] :
             d \in { <<>>, << Asset(9, <<"checksums", ".", "txt">>) >>, whole }}

\* whether getReleaseAsset answers, and whether rm(assetPath) succeeds
Answers(world) == IF world = "nominal" THEN {TRUE} ELSE BOOLEAN

\* data.find(a => assetName === a.name)
find(data, n) ==
  LET hit(a) == a.name = n
      hits == SelectSeq(data, hit)
  IN IF hits = <<>> THEN None ELSE Some(hits[1])

download(t, release, assets, assetOk, f, d) ==
  LET fail(e, n, st) == [err |-> e, ret |-> None, api |-> n, fs |-> f, dirs |-> d, steps |-> st] IN
  IF release = None THEN fail("TypeError", 0, {})
  ELSE IF ~assets.ok THEN fail("upstream error", 1, {})
  ELSE
    LET assetName == getAssetName(t, slice(The(release).tag, 1), platform, nodeArch)
        asset == find(assets.data, assetName)
    IN IF asset = None THEN fail("asset not found", 1, {})
       ELSE IF ~assetOk THEN fail("upstream error", 2, {})
       ELSE LET destination == Path(storageDir(t), The(asset).name)
            IN [err |-> "none", ret |-> Some(destination), api |-> 2,
                fs |-> [p \in DOMAIN f \cup {destination} |->
                          IF p = destination THEN [kind |-> "archive"] ELSE f[p]],
                dirs |-> d \cup {storageDir(t)},
                steps |-> {"writeFile"}]

-----------------------------------------------------------------------------
(* AnchoreCliService.extract *)

\* what unpacking an archive does: it completes or throws, it may or may not
\* have written the tool binary, with the mode stored in the archive
Extractions ==
  {[ok |-> o, bin |-> FALSE, x |-> FALSE] : o \in BOOLEAN} \cup
  {[ok |-> o, bin |-> TRUE, x |-> m] : o \in BOOLEAN, m \in BOOLEAN}

archiveFormat_Lax(base) ==
  IF endsWith(base, <<".", "zip">>) THEN "zip" ELSE "tar.gz"

archiveFormat(base) ==
  IF endsWith(base, <<".", "zip">>) THEN "zip"
  ELSE IF endsWith(base, <<".", "tar", ".", "gz">>) THEN "tar.gz"
  ELSE "unsupported"

chmod_Skipped(f, p) == f

\* chmod(binaryPath, 0o755)
chmod(f, p) == [f EXCEPT ![p] = [kind |-> "bin", x |-> TRUE]]

extract(t, archivePath, destDir, ex, f) ==
  IF archiveFormat(archivePath.base) = "unsupported"
  THEN [err |-> "Unsupported archive format", ret |-> None, fs |-> f, steps |-> {}]
  ELSE
    LET bp == Path(destDir, binaryName(t, isWindows))
        f1 == IF ex.bin
              THEN [p \in DOMAIN f \cup {bp} |->
                      IF p = bp THEN [kind |-> "bin", x |-> ex.x] ELSE f[p]]
              ELSE f
        st1 == {archiveFormat(archivePath.base)}
    IN IF ~ex.ok THEN [err |-> "extraction failed", ret |-> None, fs |-> f1, steps |-> st1]
       ELSE IF isWindows THEN [err |-> "none", ret |-> Some(bp), fs |-> f1, steps |-> st1]
       ELSE IF bp \notin DOMAIN f1
            THEN [err |-> "ENOENT", ret |-> None, fs |-> f1, steps |-> st1]
            ELSE [err |-> "none", ret |-> Some(bp),
                  fs |-> chmod(f1, bp),
                  steps |-> st1 \cup {"chmod"}]

-----------------------------------------------------------------------------
(* The installer registered by AnchoreCliService.init: doInstall, doUninstall *)

noVersionSelected_Unchecked(t) == FALSE

\* if (!selected) throw new Error('No version selected')
noVersionSelected(t) == selected[t] = None

rm_Skipped(f, p, rmOk) == f

\* rm(assetPath): the archive is removed unless the removal itself fails
rm(f, p, rmOk) == IF rmOk THEN [q \in DOMAIN f \ {p} |-> f[q]] ELSE f

updateVersion_VersionOnly(tools, t, v, p) ==
  [tools EXCEPT ![t] = Some([version |-> Some(v), path |-> The(tools[t]).path])]

\* cliTool.updateVersion({ version: selected.tag.slice(1), path: binPath })
updateVersion(tools, t, v, p) ==
  [tools EXCEPT ![t] = Some([version |-> Some(v), path |-> Some(p)])]

doInstall(t, world) ==
  /\ cliTool[t] # None
  /\ IF noVersionSelected(t)
     THEN /\ last' = [NoLast EXCEPT !.op = "doInstall", !.tool = t,
                        !.err = "No version selected", !.pre = cliTool[t]]
          /\ UNCHANGED <<cliTool, fs, dirs>>
     ELSE
       \E assets \in AssetFetches(world, t, IF selected[t] = None THEN <<>>
                                     ELSE slice(The(selected[t]).tag, 1)),
          assetOk \in Answers(world) :
         LET dl == download(t, selected[t], assets, assetOk, fs, dirs) IN
         IF dl.err # "none"
         THEN /\ last' = [NoLast EXCEPT !.op = "doInstall", !.tool = t, !.err = dl.err,
                            !.api = dl.api, !.pre = cliTool[t], !.steps = dl.steps]
              /\ fs' = dl.fs
              /\ dirs' = dl.dirs
              /\ UNCHANGED cliTool
         ELSE
           \E ex \in Extractions, rmOk \in Answers(world) :
             LET assetPath == The(dl.ret)
                 xt == extract(t, assetPath, storageDir(t), ex, dl.fs)
                 done == xt.err = "none"
             IN /\ cliTool' = IF done
                              THEN updateVersion(cliTool, t, slice(The(selected[t]).tag, 1),
                                                 The(xt.ret))
                              ELSE cliTool
                /\ fs' = rm(xt.fs, assetPath, rmOk)
                /\ dirs' = dl.dirs
                /\ last' = [NoLast EXCEPT !.op = "doInstall", !.tool = t, !.err = xt.err,
                              !.api = dl.api, !.pre = cliTool[t], !.dest = dl.ret,
                              !.ret = IF done THEN xt.ret ELSE None,
                              !.steps = dl.steps \cup xt.steps
                                          \cup (IF done THEN {"updateVersion"} ELSE {})
                                          \cup {IF rmOk THEN "rm" ELSE "rm failed"}]
  /\ UNCHANGED <<platform, version, selected>>

doUninstall(t) ==
  /\ cliTool[t] # None
  /\ last' = [NoLast EXCEPT !.op = "doUninstall", !.tool = t, !.err = "Not implemented"]
  /\ UNCHANGED <<platform, cliTool, version, selected, fs, dirs>>

-----------------------------------------------------------------------------
(* Files and the node:fs helpers *)

existsSync(f, p) == p \in DOMAIN f

writeTo(f, p, c) == [q \in DOMAIN f \cup {p} |-> IF q = p THEN c ELSE f[q]]

rename_Copy(f, from, to) == writeTo(f, to, f[from])

\* rename(from, to): the file at `from` replaces whatever is at `to`
rename(f, from, to) ==
  [q \in (DOMAIN f \ {from}) \cup {to} |-> IF q = to THEN f[from] ELSE f[q]]

Partial == [kind |-> "partial"]
Sbom == [kind |-> "sbom"]

\* process.exec can start a binary that exists and, off Windows, is executable
canRun(f, bin) == existsSync(f, bin) /\ (isWindows \/ f[bin].x)

\* if (!this.cliTool?.version || !this.cliTool.path) throw ...
installRequired(t) ==
  \/ cliTool[t] = None
  \/ ~Truthy(The(cliTool[t]).version)
  \/ The(cliTool[t]).path = None

-----------------------------------------------------------------------------
(* PodmanService.findPodmanConnection / getPodmanConnections *)

Machine == [providerId |-> "podman", type |-> "podman", name |-> <<"m">>, vmType |-> Some("qemu")]
Native == [providerId |-> "podman", type |-> "podman", name |-> <<"m">>, vmType |-> None]
Docker == [providerId |-> "docker", type |-> "docker", name |-> <<"d">>, vmType |-> None]
Connections == {Machine, Native, Docker}

PodmanConnection(n, uri, key) == [Name |-> n, URI |-> uri, Identity |-> key]

\* what `podman system connection ls --format=json` answers
ConnectionLists ==
  { <<>>,
    << PodmanConnection(<<"m">>, <<"ssh:", "h">>, Some("k")) >>,
    << PodmanConnection(<<"m">>, <<"tcp:", "h">>, None) >>,
    << PodmanConnection(<<"m">>, <<"unix:", "s">>, None),
       PodmanConnection(<<"m", "-root">>, <<"ssh:", "h">>, None) >> }

PodmanLs == {[ok |-> FALSE, data |-> <<>>]} \cup {[ok |-> TRUE, data |-> d] : d \in ConnectionLists}

\* `podman machine inspect --format {{.Rootful}}`: fails, or prints true / false
RootfulAnswers == {"error", "true", "false"}

\* the name under which podman lists the connection
connectionNameOf(connection, rootful) ==
  IF connection.vmType # None
  THEN connection.name \o (IF rootful = "true" THEN <<"-root">> ELSE <<>>)
  ELSE connection.name

\* the URI of the entry that `podman system connection ls` has for that name
listedUri(connection, ls, rootful) ==
  LET named(c) == c.Name = connectionNameOf(connection, rootful)
      hits == SelectSeq(ls.data, named)
  IN IF hits = <<>> THEN None ELSE Some(hits[1].URI)

getPodmanConnections(data) ==
  LET ssh(c) == startsWith(c.URI, <<"ssh:">>) IN SelectSeq(data, ssh)

\* the connection found (optional), or the error of a failed podman call
findPodmanConnection(connection, ls, rootful) ==
  IF ~ls.ok THEN [err |-> "podman exec failed", ret |-> None]
  ELSE IF connection.vmType # None /\ rootful = "error"
       THEN [err |-> "podman exec failed", ret |-> None]
  ELSE
    LET connections == getPodmanConnections(ls.data)
        connectionName == connectionNameOf(connection, rootful)
        named(c) == c.Name = connectionName
        hits == SelectSeq(connections, named)
    IN [err |-> "none", ret |-> IF hits = <<>> THEN None ELSE Some(hits[1])]

-----------------------------------------------------------------------------
(* SyftService.analyse *)

\* the digest prefix, character by character
Sha256Prefix == <<"s", "h", "a", "2", "5", "6", ":">>

ImageIds == { Sha256Prefix \o <<"a">>, <<"a">> }

sanitizeImageId_Shorter(imageId) ==
  IF startsWith(imageId, Sha256Prefix) THEN slice(imageId, 6) ELSE imageId

\* if (imageId.startsWith('sha256:')) return imageId.substring(7)
sanitizeImageId(imageId) ==
  IF startsWith(imageId, Sha256Prefix) THEN slice(imageId, 7) ELSE imageId

sbomDestination_Json(connection, imageId) ==
  Path(<<connection.providerId, connection.name>>,
       sanitizeImageId(imageId) \o <<".", "json">>)

sbomDestination(connection, imageId) ==
  Path(<<connection.providerId, connection.name>>,
       sanitizeImageId(imageId) \o <<".", "jsonpow">>)

tmpOf(destination) == [destination EXCEPT !.base = @ \o <<".", "tmp">>]

syftOutput_Direct(destination) == destination

sbomCached_Never(f, destination) == FALSE

\* if (existsSync(destination)) return destination
sbomCached(f, destination) == existsSync(f, destination)

\* `--output=json=${tmp}`: the file the binary is told to write
syftOutput(destination) == tmpOf(destination)

\* how a run of the SBOM generator ends: exit 0 with the whole document
\* written, or a failure with nothing or only a part of it written
SyftRuns == {[ok |-> TRUE, wrote |-> "all"], [ok |-> FALSE, wrote |-> "nothing"],
             [ok |-> FALSE, wrote |-> "part"]}

containerEnv(found) ==
  IF found = None THEN [CONTAINER_HOST |-> None, CONTAINER_SSHKEY |-> None]
  ELSE [CONTAINER_HOST |-> Some(The(found).URI), CONTAINER_SSHKEY |-> The(found).Identity]

syftAnalyse(connection, imageId) ==
  LET t == "syft"
      obs == [NoLast EXCEPT !.op = "syftAnalyse", !.tool = t]
      fail(o, e) == /\ last' = [o EXCEPT !.err = e]
                    /\ UNCHANGED <<fs, dirs>>
  IN
  /\ IF installRequired(t) THEN fail(obs, "binary not installed")
     ELSE IF connection.type # "podman" THEN fail(obs, "only podman connection")
     ELSE
       LET binary == The(The(cliTool[t]).path)
           destination == sbomDestination(connection, imageId)
           found == IF destination \in DOMAIN fs THEN Some(fs[destination]) ELSE None
           obs1 == [obs EXCEPT !.dest = Some(destination), !.pre = found]
       IN IF sbomCached(fs, destination)
          THEN /\ last' = [obs1 EXCEPT !.ret = Some(destination)]
               /\ UNCHANGED <<fs, dirs>>
          ELSE
            \E ls \in PodmanLs,
               rootful \in (IF connection.vmType # None THEN RootfulAnswers ELSE {"false"}) :
              LET c == findPodmanConnection(connection, ls, rootful)
                  obs1l == [obs1 EXCEPT !.listed = listedUri(connection, ls, rootful)]
              IN
              IF c.err # "none" THEN fail(obs1, c.err)
              ELSE IF c.ret = None /\ ~isLinux THEN fail(obs1l, "podman connection not found")
              ELSE IF c.ret # None /\ ~startsWith(The(c.ret).URI, <<"ssh:">>)
                   THEN fail(obs1l, "do not support non-SSH connections")
              ELSE
                \E run \in SyftRuns :
                  LET out == syftOutput(destination)
                      started == canRun(fs, binary)
                      f1 == IF ~started \/ run.wrote = "nothing" THEN fs
                            ELSE writeTo(fs, out, IF run.wrote = "all" THEN Sbom ELSE Partial)
                      obs2 == [obs1l EXCEPT !.execs = <<[bin |-> binary, out |-> out,
                                                       env |-> containerEnv(c.ret)]>>,
                                           !.steps = {"mkdir"}]
                  IN /\ dirs' = dirs \cup {destination.dir}
                     /\ IF ~started \/ ~run.ok
                        THEN /\ fs' = f1
                             /\ last' = [obs2 EXCEPT !.err = "exec failed"]
                        ELSE IF ~existsSync(f1, tmpOf(destination))
                        THEN /\ fs' = f1
                             /\ last' = [obs2 EXCEPT !.err = "ENOENT"]
                        ELSE /\ fs' = rename(f1, tmpOf(destination), destination)
                             /\ last' = [obs2 EXCEPT !.ret = Some(destination),
                                                     !.steps = {"mkdir", "rename"}]
  /\ UNCHANGED <<platform, cliTool, version, selected>>

-----------------------------------------------------------------------------
(* GrypeOutputSchema *)

SeverityEnum == {"High", "Medium", "Critical", "Low"}

toLowerCase_Identity(sev) == sev

toLowerCase(sev) ==
  CASE sev = "High" -> "high"
    [] sev = "Medium" -> "medium"
    [] sev = "Critical" -> "critical"
    [] sev = "Low" -> "low"
    [] sev = "Negligible" -> "negligible"
    [] OTHER -> sev

Match(i, sev, d) == [vulnerability |-> [id |-> i, severity |-> sev, description |-> d]]

\* the matches a vulnerability document can list
Matches == { Match(Some("CVE-1"), "High", Some("text")),
             Match(None, "Low", None),
             Match(Some("CVE-2"), "Negligible", None),
             Match(Some("CVE-3"), "Critical", None) }

Doc(m) == [kind |-> "doc", matches |-> m]

\* the JSON documents the vulnerability scanner can write: with no `matches`
\* key, or with a list of at most MaxMatches matches
Docs == {Doc(None)} \cup {Doc(Some(m)) : m \in SeqsUpTo(Matches, MaxMatches)}

matchValid_AnyId(m) == m.vulnerability.severity \in SeverityEnum

matchValid(m) ==
  /\ m.vulnerability.id # None
  /\ m.vulnerability.severity \in SeverityEnum

schemaParse_Lenient(content) == [err |-> "none", ret |-> Some([matches |-> <<>>])]

\* JSON.parse followed by GrypeOutputSchema.parse: the parsed value, or an error
schemaParse(content) ==
  IF content.kind # "doc" THEN [err |-> "SyntaxError", ret |-> None]
  ELSE IF content.matches = None THEN [err |-> "ZodError", ret |-> None]
  ELSE LET ms == The(content.matches) IN
       IF \E i \in 1..Len(ms) : ~matchValid(ms[i]) THEN [err |-> "ZodError", ret |-> None]
       ELSE [err |-> "none",
             ret |-> Some([matches |->
                      [i \in 1..Len(ms) |->
                         [vulnerability |->
                            [ms[i].vulnerability EXCEPT !.severity = toLowerCase(@)]]]])]

-----------------------------------------------------------------------------
(* GrypeService.analyse *)

\* const [name] = basename(sbom).split('.')
nameOf(base) ==
  IF \E i \in 1..Len(base) : base[i] = "."
  THEN SubSeq(base, 1, (CHOOSE i \in 1..Len(base) :
                          base[i] = "." /\ \A j \in 1..(i - 1) : base[j] # ".") - 1)
  ELSE base

grypeDestination(sbom) == Path(sbom.dir, nameOf(sbom.base) \o <<".", "json">>)

\* the SBOM paths handed to the vulnerability scanner
SbomPaths == {sbomDestination(c, i) : c \in {Machine}, i \in ImageIds}

\* how a run of the vulnerability scanner ends: exit 0 with a whole document
\* written to --file, or a failure with nothing or only a part of it written
GrypeRuns ==
  {[ok |-> TRUE, wrote |-> d] : d \in Docs} \cup
  {[ok |-> FALSE, wrote |-> w] : w \in {None, Some(Partial)}}

grypeCached_Never(f, destination) == FALSE

\* if (existsSync(destination)) { read, parse, return }
grypeCached(f, destination) == existsSync(f, destination)

\* `--file=${destination}`: the file the binary is told to write
grypeOutput(destination) == destination

sbomMissing_Unchecked(f, sbom) == FALSE

\* if (!existsSync(options.sbom)) throw
sbomMissing(f, sbom) == ~existsSync(f, sbom)

grypeAnalyse(sbom) ==
  LET t == "grype"
      obs == [NoLast EXCEPT !.op = "grypeAnalyse", !.tool = t, !.arg = Some(sbom)]
      fail(o, e) == /\ last' = [o EXCEPT !.err = e]
                    /\ UNCHANGED <<fs, dirs>>
  IN
  /\ IF installRequired(t) THEN fail(obs, "binary not installed")
     ELSE IF sbomMissing(fs, sbom) THEN fail(obs, "sbom file missing")
     ELSE
       LET binary == The(The(cliTool[t]).path)
           destination == grypeDestination(sbom)
           found == IF destination \in DOMAIN fs THEN Some(fs[destination]) ELSE None
           obs1 == [obs EXCEPT !.dest = Some(destination), !.pre = found]
       IN IF grypeCached(fs, destination)
          THEN LET parsed == schemaParse(fs[destination])
               IN /\ last' = [obs1 EXCEPT !.err = parsed.err, !.ret = parsed.ret,
                                          !.steps = {"readFile"}]
                  /\ UNCHANGED <<fs, dirs>>
          ELSE
            \E run \in GrypeRuns :
              LET out == grypeOutput(destination)
                  started == canRun(fs, binary)
                  f1 == IF ~started THEN fs
                        ELSE IF run.ok THEN writeTo(fs, out, run.wrote)
                        ELSE IF run.wrote = None THEN fs
                        ELSE writeTo(fs, out, The(run.wrote))
                  obs2 == [obs1 EXCEPT !.execs = <<[bin |-> binary, out |-> out, sbom |-> sbom]>>]
              IN /\ fs' = f1
                 /\ UNCHANGED dirs
                 /\ IF ~started \/ ~run.ok
                    THEN last' = [obs2 EXCEPT !.err = "exec failed"]
                    ELSE IF ~existsSync(f1, destination)
                    THEN last' = [obs2 EXCEPT !.err = "ENOENT"]
                    ELSE LET parsed == schemaParse(f1[destination])
                         IN last' = [obs2 EXCEPT !.err = parsed.err, !.ret = parsed.ret,
                                                 !.steps = {"readFile"}]
  /\ UNCHANGED <<platform, cliTool, version, selected>>

-----------------------------------------------------------------------------
(* The system: both tools' lifecycle managers and both scan invokers *)

\* a binary left on disk by an earlier session
InstalledBinary == [kind |-> "bin", x |-> TRUE]

Init ==
  /\ platform \in Platforms
  /\ cliTool = [t \in Tool |-> None]
  /\ version = [t \in Tool |-> None]
  /\ selected = [t \in Tool |-> None]
  /\ \E present \in SUBSET Tool :
       fs = [p \in {binaryPath(t) : t \in present} |-> InstalledBinary]
  /\ dirs = {}
  /\ last = NoLast
  /\ requests = [r \in Slots |-> Idle]

\* The whole system. The release API and the installed binary's --version
\* answer as documented here; every way they can fail is explored by
\* SpecInstall below, which the scans do not depend on.
Next ==
  \/ \E t \in Tool : init(t, "nominal") /\ UNCHANGED requests
  \/ \E t \in Tool : selectVersion(t, "nominal") /\ UNCHANGED requests
  \/ \E t \in Tool : doInstall(t, "nominal") /\ UNCHANGED requests
  \/ \E t \in Tool : doUninstall(t) /\ UNCHANGED requests
  \/ \E c \in Connections, i \in ImageIds : syftAnalyse(c, i) /\ UNCHANGED requests
  \/ \E s \in SbomPaths : grypeAnalyse(s) /\ UNCHANGED requests

Spec == Init /\ [][Next]_vars

\* One tool's lifecycle manager on its own (the two managers share no state:
\* each has its own closure and its own storage directory), against every
\* answer of the release API, of the archive and of the version probe.
NextInstall ==
  \E t \in Tool :
    /\ \A u \in Tool \ {t} : cliTool[u] = None
    /\ UNCHANGED requests
    /\ \/ init(t, "any")
       \/ selectVersion(t, "any")
       \/ doInstall(t, "any")
       \/ doUninstall(t)

SpecInstall == Init /\ [][NextInstall]_vars

-----------------------------------------------------------------------------
(* ContainerService.getRunningProviderContainerConnectionByEngineId *)

EngineIds == {"e1", "e2"}

\* an entry of providers.getContainerConnections(), with what its
\* connection.status() and containers.listInfos({provider}) answer
Provider(c, st, infos) == [provider |-> c, status |-> st, infos |-> infos]

qualifies_AnyStatus(entry, engineId) ==
  entry.infos # <<>> /\ entry.infos[1] = engineId

\* status() === 'started', infos.length > 0 and infos[0].engineId === engineId
qualifies(entry, engineId) ==
  /\ entry.status = "started"
  /\ entry.infos # <<>>
  /\ entry.infos[1] = engineId

RECURSIVE getRunningProviderContainerConnectionByEngineId(_, _)
getRunningProviderContainerConnectionByEngineId(providers, engineId) ==
  IF providers = <<>> THEN [err |-> "connection not found", ret |-> None]
  ELSE IF qualifies(Head(providers), engineId)
       THEN [err |-> "none", ret |-> Some(Head(providers).provider)]
       ELSE getRunningProviderContainerConnectionByEngineId(Tail(providers), engineId)

-----------------------------------------------------------------------------
(* The calls in flight. An async method runs up to its next `await` in one
   step; between two steps of one call the steps of other calls can run. *)

\* the call returns or throws: its promise settles
settle(r, o) ==
  /\ last' = o
  /\ requests' = [requests EXCEPT ![r] = Idle]

\* the call is suspended at an `await`
suspend(r, q) ==
  /\ requests' = [requests EXCEPT ![r] = q]
  /\ UNCHANGED last

\* the steps of a call that is part of check are recorded under its name
stage(q, name) == IF q.op = "check" THEN {name} ELSE {}

sbomArgument_Tmp(file) == tmpOf(file)

\* this.dependencies.grype.analyse({ sbom: file })
sbomArgument(file) == file

checksOf_NoSuccess(result) ==
  [i \in 1..Len(result.matches) |->
     [name |-> The(result.matches[i].vulnerability.id),
      status |-> "failed",
      severity |-> result.matches[i].vulnerability.severity,
      markdownDescription |-> result.matches[i].vulnerability.description]]

\* result.matches.map(...), or the single success check when there is no match
checksOf(result) ==
  LET vulnerabilities ==
        [i \in 1..Len(result.matches) |->
           [name |-> The(result.matches[i].vulnerability.id),
            status |-> "failed",
            severity |-> result.matches[i].vulnerability.severity,
            markdownDescription |-> result.matches[i].vulnerability.description]]
  IN IF Len(vulnerabilities) > 0 THEN vulnerabilities
     ELSE << [status |-> "success", name |-> "No vulnerabilities found"] >>

\* SyftService.analyse resolves with the destination
syftReturns(r, q, o, destination) ==
  IF q.op = "check"
  THEN suspend(r, [q EXCEPT !.pc = "grypeBegin",
                            !.sbom = Some(sbomArgument(destination)),
                            !.obs = [o EXCEPT !.file = Some(destination)]])
  ELSE settle(r, [o EXCEPT !.ret = Some(destination)])

\* SyftService.analyse up to its first await: the guards and the cache gate
syftBegin(r, q) ==
  LET t == "syft"
      connection == The(q.connection)
      o == [q.obs EXCEPT !.steps = @ \cup stage(q, "syft.analyse")]
  IN
  /\ IF installRequired(t) THEN settle(r, [o EXCEPT !.err = "binary not installed"])
     ELSE IF connection.type # "podman" THEN settle(r, [o EXCEPT !.err = "only podman connection"])
     ELSE
       LET destination == sbomDestination(connection, The(q.imageId))
           found == IF destination \in DOMAIN fs THEN Some(fs[destination]) ELSE None
           o1 == [o EXCEPT !.dest = Some(destination), !.pre = found]
       IN IF sbomCached(fs, destination)
          THEN syftReturns(r, q, o1, destination)
          ELSE suspend(r, [q EXCEPT !.pc = "syftExec", !.obs = o1])
  /\ UNCHANGED <<platform, cliTool, version, selected, fs, dirs>>

syftStart(r, connection, imageId) ==
  /\ requests[r] = Idle
  /\ syftBegin(r, [Idle EXCEPT !.op = "syftAnalyse", !.connection = Some(connection),
                               !.imageId = Some(imageId),
                               !.obs = [NoLast EXCEPT !.op = "syftAnalyse", !.tool = "syft"]])

\* the callback of withProgress up to the start of the binary: the podman
\* connection, the environment, mkdir and the spawn of the process
syftExec(r, world) ==
  LET q == requests[r]
      connection == The(q.connection)
      destination == The(q.obs.dest)
      binary == The(The(cliTool["syft"]).path)
  IN
  /\ q.pc = "syftExec"
  /\ \E ls \in (IF world = "nominal"
                THEN {[ok |-> TRUE, data |-> << PodmanConnection(<<"m">>, <<"ssh:", "h">>, Some("k")) >>]}
                ELSE PodmanLs),
        rootful \in (IF connection.vmType # None /\ world # "nominal"
                     THEN RootfulAnswers ELSE {"false"}) :
       LET c == findPodmanConnection(connection, ls, rootful)
           o1 == [q.obs EXCEPT !.listed = listedUri(connection, ls, rootful)]
           fail(o, e) == settle(r, [o EXCEPT !.err = e]) /\ UNCHANGED dirs
       IN
       IF c.err # "none" THEN fail(q.obs, c.err)
       ELSE IF c.ret = None /\ ~isLinux THEN fail(o1, "podman connection not found")
       ELSE IF c.ret # None /\ ~startsWith(The(c.ret).URI, <<"ssh:">>)
            THEN fail(o1, "do not support non-SSH connections")
       ELSE
         LET o2 == [o1 EXCEPT !.execs = @ \o <<[bin |-> binary, out |-> syftOutput(destination),
                                               env |-> containerEnv(c.ret)]>>,
                              !.steps = @ \cup {"mkdir"}]
         IN /\ dirs' = dirs \cup {destination.dir}
            /\ IF ~canRun(fs, binary) THEN settle(r, [o2 EXCEPT !.err = "exec failed"])
               ELSE suspend(r, [q EXCEPT !.pc = "syftRunning", !.obs = o2])
  /\ UNCHANGED <<platform, cliTool, version, selected, fs>>

\* the running process opens its output file and has written a part of it
syftWrites(r) ==
  LET q == requests[r] IN
  /\ q.pc = "syftRunning"
  /\ fs' = writeTo(fs, syftOutput(The(q.obs.dest)), Partial)
  /\ suspend(r, [q EXCEPT !.pc = "syftWriting"])
  /\ UNCHANGED <<platform, cliTool, version, selected, dirs>>

\* the process exits and `await exec` settles
syftExits(r, run) ==
  LET q == requests[r]
      out == syftOutput(The(q.obs.dest))
  IN
  /\ q.pc \in {"syftRunning", "syftWriting"}
  /\ q.pc = "syftWriting" => run.wrote # "nothing"
  /\ fs' = IF run.wrote = "nothing" THEN fs
           ELSE writeTo(fs, out, IF run.wrote = "all" THEN Sbom ELSE Partial)
  /\ IF run.ok THEN suspend(r, [q EXCEPT !.pc = "syftRename"])
     ELSE settle(r, [q.obs EXCEPT !.err = "exec failed"])
  /\ UNCHANGED <<platform, cliTool, version, selected, dirs>>

\* await rename(tmp, destination); return destination
syftRename(r) ==
  LET q == requests[r]
      destination == The(q.obs.dest)
  IN
  /\ q.pc = "syftRename"
  /\ IF ~existsSync(fs, tmpOf(destination))
     THEN /\ settle(r, [q.obs EXCEPT !.err = "ENOENT"])
          /\ UNCHANGED fs
     ELSE /\ fs' = rename(fs, tmpOf(destination), destination)
          /\ syftReturns(r, q, [q.obs EXCEPT !.steps = @ \cup {"rename"}], destination)
  /\ UNCHANGED <<platform, cliTool, version, selected, dirs>>

\* GrypeService.analyse up to its first await: the guards and the cache gate
grypeBegin(r, q) ==
  LET t == "grype"
      sbom == The(q.sbom)
      o == [q.obs EXCEPT !.arg = q.sbom, !.steps = @ \cup stage(q, "grype.analyse")]
  IN
  /\ IF installRequired(t) THEN settle(r, [o EXCEPT !.err = "binary not installed"])
     ELSE IF sbomMissing(fs, sbom) THEN settle(r, [o EXCEPT !.err = "sbom file missing"])
     ELSE
       LET destination == grypeDestination(sbom)
           found == IF destination \in DOMAIN fs THEN Some(fs[destination]) ELSE None
           o1 == [o EXCEPT !.dest = Some(destination), !.pre = found]
       IN IF grypeCached(fs, destination)
          THEN suspend(r, [q EXCEPT !.pc = "grypeRead", !.obs = o1])
          ELSE suspend(r, [q EXCEPT !.pc = "grypeExec", !.obs = o1])
  /\ UNCHANGED <<platform, cliTool, version, selected, fs, dirs>>

grypeStart(r, sbom) ==
  /\ requests[r] = Idle
  /\ grypeBegin(r, [Idle EXCEPT !.op = "grypeAnalyse", !.sbom = Some(sbom),
                                !.obs = [NoLast EXCEPT !.op = "grypeAnalyse", !.tool = "grype"]])

\* the runs of the vulnerability scanner a specification considers
GrypeRunsOf(world) ==
  IF world = "nominal"
  THEN {[ok |-> TRUE, wrote |-> Doc(Some(<<>>))], [ok |-> FALSE, wrote |-> None]}
  ELSE GrypeRuns

\* await exec(binary, [..., `--file=${destination}`])
grypeExec(r, world) ==
  LET q == requests[r]
      destination == The(q.obs.dest)
      binary == The(The(cliTool["grype"]).path)
      out == grypeOutput(destination)
      o == [q.obs EXCEPT !.execs = @ \o <<[bin |-> binary, out |-> out, sbom |-> The(q.sbom)]>>]
  IN
  /\ q.pc = "grypeExec"
  /\ \E run \in GrypeRunsOf(world) :
       LET started == canRun(fs, binary) IN
       /\ fs' = IF ~started THEN fs
                ELSE IF run.ok THEN writeTo(fs, out, run.wrote)
                ELSE IF run.wrote = None THEN fs
                ELSE writeTo(fs, out, The(run.wrote))
       /\ IF ~started \/ ~run.ok THEN settle(r, [o EXCEPT !.err = "exec failed"])
          ELSE suspend(r, [q EXCEPT !.pc = "grypeRead", !.obs = o])
  /\ UNCHANGED <<platform, cliTool, version, selected, dirs>>

\* await readFile(destination); GrypeOutputSchema.parse(JSON.parse(data));
\* in check, the result is mapped to the list of checks
grypeRead(r) ==
  LET q == requests[r]
      destination == The(q.obs.dest)
      o == [q.obs EXCEPT !.steps = @ \cup {"readFile"}]
  IN
  /\ q.pc = "grypeRead"
  /\ IF ~existsSync(fs, destination) THEN settle(r, [o EXCEPT !.err = "ENOENT"])
     ELSE LET parsed == schemaParse(fs[destination])
          IN IF parsed.err # "none" THEN settle(r, [o EXCEPT !.err = parsed.err])
             ELSE IF q.op = "check"
                  THEN settle(r, [o EXCEPT !.result = parsed.ret,
                                           !.ret = Some(checksOf(The(parsed.ret)))])
                  ELSE settle(r, [o EXCEPT !.ret = parsed.ret])
  /\ UNCHANGED <<platform, cliTool, version, selected, fs, dirs>>

-----------------------------------------------------------------------------
(* ImageCheckerProvider.check *)

Images == [engineId : EngineIds, Id : ImageIds]

\* what providers.getContainerConnections() and the engines answer
ProviderLists ==
  { <<>>,
    << Provider(Machine, "started", <<"e1">>) >>,
    << Provider(Machine, "stopped", <<"e1">>), Provider(Docker, "started", <<"e1">>) >> }

\* check up to the return of the connection lookup
checkStart(r, image, providers) ==
  LET found == getRunningProviderContainerConnectionByEngineId(providers, image.engineId)
      o == [NoLast EXCEPT !.op = "check", !.steps = {"lookup"}]
  IN
  /\ requests[r] = Idle
  /\ IF found.err # "none" THEN settle(r, [o EXCEPT !.err = found.err])
     ELSE suspend(r, [Idle EXCEPT !.op = "check", !.pc = "syftBegin",
                                  !.connection = found.ret, !.imageId = Some(image.Id),
                                  !.obs = o])
  /\ UNCHANGED <<platform, cliTool, version, selected, fs, dirs>>

\* const file = await this.dependencies.syft.analyse({ connection, imageId })
checkSyft(r) ==
  /\ requests[r].op = "check"
  /\ requests[r].pc = "syftBegin"
  /\ syftBegin(r, requests[r])

\* const result = await this.dependencies.grype.analyse({ sbom: file })
checkGrype(r) ==
  /\ requests[r].op = "check"
  /\ requests[r].pc = "grypeBegin"
  /\ grypeBegin(r, requests[r])

\* One image check at a time, against every answer of podman and of the two
\* binaries.
NextCheck ==
  \/ \E t \in Tool : init(t, "nominal") /\ UNCHANGED requests
  \/ \E image \in Images, providers \in ProviderLists : checkStart(1, image, providers)
  \/ checkSyft(1)
  \/ syftExec(1, "any")
  \/ syftWrites(1)
  \/ \E run \in SyftRuns : syftExits(1, run)
  \/ syftRename(1)
  \/ checkGrype(1)
  \/ grypeExec(1, "any")
  \/ grypeRead(1)

SpecCheck == Init /\ [][NextCheck]_vars

\* Analyses of one image requested while others are in flight.
NextConcurrent ==
  \/ \E t \in Tool : init(t, "nominal") /\ UNCHANGED requests
  \/ \E r \in Slots, i \in ImageIds : syftStart(r, Machine, i)
  \/ \E r \in Slots : syftExec(r, "nominal")
  \/ \E r \in Slots : syftWrites(r)
  \/ \E r \in Slots, run \in SyftRuns : syftExits(r, run)
  \/ \E r \in Slots : syftRename(r)
  \/ \E r \in Slots, s \in SbomPaths : grypeStart(r, s)
  \/ \E r \in Slots : grypeExec(r, "nominal")
  \/ \E r \in Slots : grypeRead(r)

SpecConcurrent == Init /\ [][NextConcurrent]_vars

-----------------------------------------------------------------------------
(* The pure functions, applied to inputs drawn from bounded sets *)

MaxIdChunks == 2
MaxReleases == 3

IdChunks == { Sha256Prefix, <<"s", "h", "a", "2", "5", "6">>, <<"a">>, <<".", "b">> }

\* image ids: every concatenation of at most MaxIdChunks chunks
AnyImageIds == {concat(c) : c \in SeqsUpTo(IdChunks, MaxIdChunks)}

ReleasePool == { Rel(1, <<"v", "1">>, FALSE), Rel(2, <<"v", "2">>, FALSE), Rel(3, <<"v", "3">>, TRUE) }

AnyPlatforms == Platforms \cup {"freebsd"}
AnyArchs == {"x64", "arm64", "ppc64", "s390x", "ia32"}
AnyVersions == { <<"1">>, <<"0", ".", "9">> }

AnyArchives ==
  { getAssetName("syft", <<"1">>, "win32", "x64"),
    getAssetName("grype", <<"1">>, "linux", "arm64"),
    <<"a", ".", "tgz">>, <<"a", ".", "gz">>, <<"zip">>, <<"a", ".", "zip", ".", "bak">> }

sanitizeImageIdCall(imageId) ==
  /\ last' = [NoLast EXCEPT !.op = "sanitizeImageId", !.pre = Some(imageId),
                            !.ret = Some(sanitizeImageId(imageId))]
  /\ UNCHANGED <<platform, cliTool, version, selected, fs, dirs, requests>>

sbomDestinationCall(connection, imageId) ==
  /\ last' = [NoLast EXCEPT !.op = "sbomDestination",
                            !.pre = Some([connection |-> connection, imageId |-> imageId]),
                            !.ret = Some(sbomDestination(connection, imageId))]
  /\ UNCHANGED <<platform, cliTool, version, selected, fs, dirs, requests>>

listReleasesCall(data, limits) ==
  /\ last' = [NoLast EXCEPT !.op = "listReleases", !.api = 1,
                            !.pre = Some([data |-> data, limits |-> limits]),
                            !.ret = Some(listReleases(data, limits))]
  /\ UNCHANGED <<platform, cliTool, version, selected, fs, dirs, requests>>

getAssetNameCall(t, v, plat, arch) ==
  /\ last' = [NoLast EXCEPT !.op = "getAssetName", !.tool = t,
                            !.pre = Some([version |-> v, platform |-> plat, arch |-> arch]),
                            !.ret = Some(getAssetName(t, v, plat, arch))]
  /\ UNCHANGED <<platform, cliTool, version, selected, fs, dirs, requests>>

extractCall(t, base, ex) ==
  LET archivePath == Path(storageDir(t), base)
      bp == binaryPath(t)
      xt == extract(t, archivePath, storageDir(t), ex, fs)
  IN /\ fs' = xt.fs
     /\ last' = [NoLast EXCEPT !.op = "extract", !.tool = t, !.err = xt.err, !.ret = xt.ret,
                               !.dest = Some(archivePath), !.steps = xt.steps,
                               !.pre = Some([ex |-> ex,
                                             bin |-> IF bp \in DOMAIN fs THEN Some(fs[bp])
                                                     ELSE None])]
     /\ UNCHANGED <<platform, cliTool, version, selected, dirs, requests>>

MaxProviders == 2

ProviderPool ==
  { Provider(Machine, "started", <<"e1">>), Provider(Docker, "started", <<"e1">>),
    Provider(Machine, "stopped", <<"e1">>), Provider(Docker, "started", <<>>),
    Provider(Machine, "started", <<"e2", "e1">>) }

getRunningProviderContainerConnectionByEngineIdCall(providers, engineId) ==
  LET found == getRunningProviderContainerConnectionByEngineId(providers, engineId)
  IN /\ last' = [NoLast EXCEPT !.op = "getRunningProviderContainerConnectionByEngineId",
                               !.pre = Some([providers |-> providers, engineId |-> engineId]),
                               !.err = found.err, !.ret = found.ret]
     /\ UNCHANGED <<platform, cliTool, version, selected, fs, dirs, requests>>

grypeDestinationCall(sbom) ==
  /\ last' = [NoLast EXCEPT !.op = "grypeDestination", !.arg = Some(sbom),
                            !.ret = Some(grypeDestination(sbom))]
  /\ UNCHANGED <<platform, cliTool, version, selected, fs, dirs, requests>>

NextPure ==
  \/ \E i \in AnyImageIds : sanitizeImageIdCall(i)
  \/ \E c \in Connections, i \in AnyImageIds : sbomDestinationCall(c, i)
  \/ \E d \in SeqsUpTo(ReleasePool, MaxReleases), n \in 0..MaxReleases : listReleasesCall(d, n)
  \/ \E t \in Tool, v \in AnyVersions, p \in AnyPlatforms, a \in AnyArchs :
       getAssetNameCall(t, v, p, a)
  \/ \E t \in Tool, b \in AnyArchives, ex \in Extractions : extractCall(t, b, ex)
  \/ \E c \in Connections, i \in AnyImageIds : grypeDestinationCall(sbomDestination(c, i))
  \/ \E ps \in SeqsUpTo(ProviderPool, MaxProviders), e \in EngineIds :
       getRunningProviderContainerConnectionByEngineIdCall(ps, e)

SpecPure == Init /\ [][NextPure]_vars

-----------------------------------------------------------------------------
(* Properties *)

analyseOps == {"syftAnalyse", "grypeAnalyse"}

\* the last call was an analyse that reached its cache gate
atGate == last.op \in analyseOps /\ last.dest # None

\* ... and found a file at the destination / found none
gateHit == atGate /\ last.pre # None
gateMiss == atGate /\ last.pre = None

isSbomDestination(p) == endsWith(p.base, <<".", "jsonpow">>)
isResultDestination(p) == endsWith(p.base, <<".", "json">>)

\* a file content that is a whole JSON document satisfying the result schema
validResult(c) ==
  /\ c.kind = "doc"
  /\ c.matches # None
  /\ \A m \in Range(The(c.matches)) :
       /\ m.vulnerability.id # None
       /\ m.vulnerability.severity \in {"High", "Medium", "Critical", "Low"}

\* C1 as stated: an analyse that finds its destination file runs no binary and
\* returns the existing path (SBOM) or the existing content (vulnerability
\* result), leaving the file unchanged.
C1_CacheHitReturns ==
  gateHit =>
    /\ last.execs = <<>>
    /\ last.err = "none"
    /\ last.ret # None
    /\ The(last.dest) \in DOMAIN fs
    /\ fs[The(last.dest)] = The(last.pre)

\* C1 amended: an analyse that finds its destination file runs no binary and
\* leaves the file unchanged; the SBOM invoker returns the destination path;
\* the vulnerability invoker returns the validated content of the file when it
\* satisfies the result schema, and fails with a parse or schema error when it
\* does not.
C1_CacheHit ==
  gateHit =>
    /\ last.execs = <<>>
    /\ The(last.dest) \in DOMAIN fs
    /\ fs[The(last.dest)] = The(last.pre)
    /\ last.op = "syftAnalyse" => last.err = "none" /\ last.ret = last.dest
    /\ last.op = "grypeAnalyse" =>
         IF validResult(The(last.pre))
         THEN /\ last.err = "none"
              /\ last.ret # None
              /\ Len(The(last.ret).matches) = Len(The(The(last.pre).matches))
              /\ \A i \in 1..Len(The(last.ret).matches) :
                   The(last.ret).matches[i].vulnerability.id
                     = The(The(last.pre).matches)[i].vulnerability.id
         ELSE last.err \in {"SyntaxError", "ZodError"} /\ last.ret = None

C1_Witness ==
  /\ gateHit
  /\ last.op = "grypeAnalyse"
  /\ last.err = "none"
  /\ The(last.ret).matches # <<>>

C3_ResultDestinationWhole ==
  /\ \A p \in DOMAIN fs : isResultDestination(p) => fs[p] # Partial
  /\ last.op = "grypeAnalyse" => last.pre # Some(Partial)

\* the manager of tool t has a recorded version and a recorded binary path
\* whose file exists on disk
installedOnDisk(t) ==
  /\ cliTool[t] # None
  /\ Truthy(The(cliTool[t]).version)
  /\ The(cliTool[t]).path # None
  /\ The(The(cliTool[t]).path) \in DOMAIN fs

\* C4: an analyse executes the external binary only when the manager has a
\* recorded version and a recorded binary path whose file exists on disk; in
\* every other state it fails with the installation-required error without
\* any process execution.
C4_ExecOnlyWhenInstalled ==
  (last.op \in analyseOps /\ ~installedOnDisk(last.tool)) =>
    /\ last.err = "binary not installed"
    /\ last.execs = <<>>

C7_InstallNeedsSelection ==
  (last.op = "doInstall" /\ selected[last.tool] = None) =>
    /\ last.err = "No version selected"
    /\ last.api = 0
    /\ last.steps = {}
    /\ last.dest = None
    /\ cliTool[last.tool] = last.pre

C7_Witness ==
  /\ last.op = "doInstall"
  /\ selected[last.tool] = None
  /\ last.err = "No version selected"

\* C8: whenever selectVersion shows its choices while an installed version is
\* recorded, the release tagged with that version is not among the choices.
C8_InstalledNotOffered ==
  (/\ last.op = "selectVersion"
   /\ last.shown # None
   /\ Truthy(The(cliTool[last.tool]).version)) =>
    \A r \in Range(The(last.shown)) :
      r.tag # <<"v">> \o The(The(cliTool[last.tool]).version)

\* the probe of the last init: the binary existed and --version was executed
probed == last.op = "init" /\ last.pre # None
notInstalled(t) ==
  /\ cliTool[t] # None
  /\ ~Truthy(The(cliTool[t]).version)
  /\ The(cliTool[t]).path = None

\* C9 as stated: when the probe fails, by an exec failure or by an output
\* without a second word, init completes and registers no version and no path.
C9_FailedProbeNotInstalled ==
  (probed /\ (~The(last.pre).ok \/ Len(The(last.pre).stdout) < 2)) =>
    last.err = "none" /\ notInstalled(last.tool)

\* C9 amended: when executing --version fails or prints nothing, init
\* completes and registers no version and no path; when it prints a single
\* word, init completes and registers that word as the version, with the
\* binary path.
C9_ProbeFallback ==
  probed =>
    /\ last.err = "none"
    /\ (~The(last.pre).ok \/ The(last.pre).stdout = <<>>) => notInstalled(last.tool)
    /\ (The(last.pre).ok /\ Len(The(last.pre).stdout) = 1) =>
         /\ The(cliTool[last.tool]).version = Some(The(last.pre).stdout[1])
         /\ The(cliTool[last.tool]).path = Some(binaryPath(last.tool))

C9_Witness ==
  /\ probed
  /\ The(last.pre).ok
  /\ Len(The(last.pre).stdout) = 1
  /\ ~notInstalled(last.tool)

\* C10: once doInstall has downloaded the archive, it attempts to delete it
\* whether extraction succeeds or fails, the archive is gone unless the
\* deletion itself failed, and doInstall ends as extraction ended.
C10_ArchiveCleanup ==
  (last.op = "doInstall" /\ "writeFile" \in last.steps) =>
    /\ last.dest # None
    /\ ("rm" \in last.steps) # ("rm failed" \in last.steps)
    /\ "rm" \in last.steps => The(last.dest) \notin DOMAIN fs
    /\ (last.err = "none") <=> ("updateVersion" \in last.steps)
    /\ last.err \in {"none", "extraction failed", "ENOENT"}

C10_Witness ==
  /\ last.op = "doInstall"
  /\ last.err = "extraction failed"
  /\ "rm" \in last.steps
  /\ The(last.dest) \notin DOMAIN fs

\* C11: when podman lists the target connection with a URI that does not
\* start with `ssh:`, SyftService.analyse fails with the unsupported-connection
\* error and executes no binary, on every host.
C11_NonSshRejected ==
  (/\ last.op = "syftAnalyse"
   /\ last.listed # None
   /\ ~startsWith(The(last.listed), <<"ssh:">>)) =>
    /\ last.err = "do not support non-SSH connections"
    /\ last.execs = <<>>


\* the image id without one leading `sha256:`, letter by letter
withoutSha256(id) ==
  IF Len(id) >= 7 /\ \A i \in 1..7 : id[i] = Sha256Prefix[i]
  THEN [i \in 1..(Len(id) - 7) |-> id[i + 7]]
  ELSE id

\* C12: for every connection and image id the SBOM destination is
\* <storage>/<providerId>/<connectionName>/<sanitizedImageId>.json.
C12_SbomDestinationJson ==
  last.op = "sbomDestination" =>
    LET in == The(last.pre)
    IN The(last.ret) = Path(<<in.connection.providerId, in.connection.name>>,
                            withoutSha256(in.imageId) \o <<".", "json">>)

RECURSIVE firstStable(_, _)
\* the first n entries of data that are not pre-releases, in the order of data
firstStable(data, n) ==
  IF data = <<>> \/ n = 0 THEN <<>>
  ELSE IF Head(data).prerelease THEN firstStable(Tail(data), n)
  ELSE <<Head(data)>> \o firstStable(Tail(data), n - 1)

\* C16: listReleases returns exactly the first `limit` entries of the upstream
\* list that are not pre-releases, in upstream order.
C16_FirstStableReleases ==
  last.op = "listReleases" =>
    LET in == The(last.pre)
        out == The(last.ret)
        want == firstStable(in.data, in.limits)
    IN /\ Len(out) = Len(want)
       /\ Len(out) <= in.limits
       /\ \A i \in 1..Len(out) :
            /\ out[i].id = want[i].id
            /\ out[i].tag = want[i].tag_name
            /\ ~want[i].prerelease

\* a list that starts with a pre-release and holds more stable releases than
\* the limit asks for
C16_Witness ==
  /\ last.op = "listReleases"
  /\ The(last.pre).data # <<>>
  /\ Head(The(last.pre).data).prerelease
  /\ The(last.pre).limits >= 1
  /\ Len(The(last.ret)) = The(last.pre).limits
  /\ Len(The(last.pre).data) = MaxReleases

\* C17: getAssetName returns {tool}_{version}_{os}_{arch}.{ext} with the
\* documented platform and architecture tables, and never fails.
C17_AssetNamePattern ==
  last.op = "getAssetName" =>
    LET in == The(last.pre)
        os == CASE in.platform = "win32" -> "windows"
                [] in.platform = "darwin" -> "darwin"
                [] OTHER -> "linux"
        ext == IF in.platform = "win32" THEN <<"zip">> ELSE <<"tar", ".", "gz">>
        arch == CASE in.arch = "x64" -> "amd64"
                  [] in.arch = "arm64" -> "arm64"
                  [] in.arch = "ppc64" -> "ppc64le"
                  [] in.arch = "s390x" -> "s390x"
                  [] OTHER -> in.arch
    IN /\ last.err = "none"
       /\ last.ret = Some(<<last.tool, "_">> \o in.version \o <<"_", os, "_", arch, ".">> \o ext)

\* an unlisted platform with the architecture whose name is rewritten
C17_Witness ==
  /\ last.op = "getAssetName"
  /\ The(last.pre).platform = "freebsd"
  /\ The(last.pre).arch = "ppc64"
  /\ last.ret # None

isZip(base) == Len(base) >= 2 /\ SubSeq(base, Len(base) - 1, Len(base)) = <<".", "zip">>
isTarGz(base) ==
  Len(base) >= 4 /\ SubSeq(base, Len(base) - 3, Len(base)) = <<".", "tar", ".", "gz">>

\* C18: extract runs the zip extraction for a `.zip` path, the tar extraction
\* for a `.tar.gz` path, and fails with the unsupported-format error for every
\* other path, leaving the disk as it was; a successful extract returns
\* destDir/{toolId}, with `.exe` on Windows.
C18_ExtractDispatch ==
  [][ last'.op = "extract" =>
        LET base == The(last'.dest).base
        IN /\ isZip(base) => last'.steps \ {"chmod"} = {"zip"}
           /\ isTarGz(base) => last'.steps \ {"chmod"} = {"tar.gz"}
           /\ (~isZip(base) /\ ~isTarGz(base)) =>
                /\ last'.err = "Unsupported archive format"
                /\ last'.steps = {}
                /\ fs' = fs
           /\ last'.err = "none" =>
                last'.ret = Some(Path(The(last'.dest).dir,
                                      IF platform = "win32"
                                      THEN <<last'.tool, ".", "exe">>
                                      ELSE <<last'.tool>>)) ]_vars

\* a path that ends neither with `.zip` nor with `.tar.gz` was refused
C18_Witness ==
  /\ last.op = "extract"
  /\ The(last.dest).base = <<"a", ".", "zip", ".", "bak">>
  /\ last.err = "Unsupported archive format"

\* C19: after a successful extract off Windows the binary at the returned path
\* is executable; on Windows no permission change is attempted and an
\* extraction that completed is a successful extract.
C19_ExecutableAfterExtract ==
  last.op = "extract" =>
    /\ (last.err = "none" /\ platform # "win32") =>
         /\ "chmod" \in last.steps
         /\ The(last.ret) \in DOMAIN fs
         /\ fs[The(last.ret)] = [kind |-> "bin", x |-> TRUE]
    /\ platform = "win32" =>
         /\ "chmod" \notin last.steps
         /\ (last.steps # {} /\ The(last.pre).ex.ok) => last.err = "none"

\* the archive held the binary without the executable bit
C19_Witness ==
  /\ last.op = "extract"
  /\ platform # "win32"
  /\ last.err = "none"
  /\ The(last.pre).ex = [ok |-> TRUE, bin |-> TRUE, x |-> FALSE]
  /\ fs[The(last.ret)].x

\* C20: sanitizeImageId removes exactly one leading `sha256:` and is the
\* identity on every image id that does not start with `sha256:`.
C20_SanitizeOnePrefix ==
  last.op = "sanitizeImageId" => last.ret = Some(withoutSha256(The(last.pre)))

\* an id that carries the prefix twice keeps the second one
C20_Witness ==
  /\ last.op = "sanitizeImageId"
  /\ last.pre = Some(Sha256Prefix \o Sha256Prefix)
  /\ last.ret = Some(Sha256Prefix)


\* C13 as stated: an analyse of an SBOM path at which no file exists fails with
\* the missing-input error, executes no binary and creates no file.
C13_MissingSbomFails ==
  [][ (last'.op = "grypeAnalyse" /\ The(last'.arg) \notin DOMAIN fs) =>
        /\ last'.err = "sbom file missing"
        /\ last'.execs = <<>>
        /\ fs' = fs ]_vars

\* C13: an analyse of an SBOM path at which no file exists fails, executes no
\* binary and creates no file; the error is the missing-input error when the
\* manager has a recorded version and binary path, and the
\* installation-required error otherwise.
C13_MissingSbomGuarded ==
  [][ (last'.op = "grypeAnalyse" /\ The(last'.arg) \notin DOMAIN fs) =>
        /\ last'.err = IF /\ cliTool["grype"] # None
                          /\ Truthy(The(cliTool["grype"]).version)
                          /\ The(cliTool["grype"]).path # None
                       THEN "sbom file missing"
                       ELSE "binary not installed"
        /\ last'.execs = <<>>
        /\ fs' = fs ]_vars

\* the installed scanner was asked for an SBOM that is not on disk
C13_Witness ==
  /\ last.op = "grypeAnalyse"
  /\ The(last.arg) \notin DOMAIN fs
  /\ last.err = "sbom file missing"

\* the last call was a vulnerability analysis that read the document at its
\* destination, found there (cached path) or just written (fresh path)
readDocument ==
  /\ last.op = "grypeAnalyse"
  /\ "readFile" \in last.steps
  /\ fs[The(last.dest)].kind = "doc"

\* C14: a document without a `matches` list, or with a match that has no
\* vulnerability id, makes the analysis fail with a schema error on the cached
\* and on the fresh path; a returned result has every match of the document.
C14_SchemaErrorWholeDocument ==
  readDocument =>
    LET doc == fs[The(last.dest)]
    IN /\ (\/ doc.matches = None
           \/ \E m \in Range(The(doc.matches)) : m.vulnerability.id = None) =>
            /\ last.err = "ZodError"
            /\ last.ret = None
       /\ last.ret # None =>
            /\ doc.matches # None
            /\ Len(The(last.ret).matches) = Len(The(doc.matches))

\* a cached document that mixes a valid match with one that has no id
C14_Witness ==
  /\ readDocument
  /\ last.pre # None
  /\ last.execs = <<>>
  /\ fs[The(last.dest)].matches =
       Some(<< Match(Some("CVE-1"), "High", Some("text")), Match(None, "Low", None) >>)
  /\ last.err = "ZodError"

\* C15: every severity of a returned result is the lowercase form of the
\* severity in the document and is one of critical, high, medium, low; a
\* severity outside High, Medium, Critical, Low fails the parse of the document.
C15_SeverityLowercase ==
  readDocument =>
    LET doc == fs[The(last.dest)]
    IN /\ last.ret # None =>
            \A i \in 1..Len(The(last.ret).matches) :
              LET out == The(last.ret).matches[i].vulnerability.severity
                  in == The(doc.matches)[i].vulnerability.severity
              IN /\ out \in {"critical", "high", "medium", "low"}
                 /\ <<in, out>> \in { <<"High", "high">>, <<"Medium", "medium">>,
                                      <<"Critical", "critical">>, <<"Low", "low">> }
       /\ (/\ doc.matches # None
           /\ \E m \in Range(The(doc.matches)) :
                m.vulnerability.severity \notin {"High", "Medium", "Critical", "Low"}) =>
            /\ last.err = "ZodError"
            /\ last.ret = None

\* a result with two matches of different severities was returned
C15_Witness ==
  /\ readDocument
  /\ last.ret # None
  /\ Len(The(last.ret).matches) = 2
  /\ The(last.ret).matches[1].vulnerability.severity = "high"
  /\ The(last.ret).matches[2].vulnerability.severity = "critical"


\* C23: the recorded version and binary path of a registered tool change only
\* in a doInstall whose download and extraction both succeeded, and are then
\* the selected tag without its leading `v` and the extracted binary path; a
\* doInstall that fails leaves them as they were.
C23_VersionOnlyByInstall ==
  [][ \A t \in Tool :
        /\ (cliTool[t] # None /\ cliTool'[t] # cliTool[t]) =>
             /\ last'.op = "doInstall" /\ last'.tool = t /\ last'.err = "none"
             /\ "writeFile" \in last'.steps
             /\ last'.steps \cap {"zip", "tar.gz"} # {}
        /\ (last'.op = "doInstall" /\ last'.tool = t) =>
             IF last'.err = "none"
             THEN cliTool'[t] =
                    Some([version |-> Some(Tail(The(selected[t]).tag)),
                          path |-> Some(Path(<<t>>, IF platform = "win32"
                                                    THEN <<t, ".", "exe">> ELSE <<t>>))])
             ELSE cliTool'[t] = cliTool[t] ]_vars

\* an install replaced the version and path recorded at registration
C23_Witness ==
  /\ last.op = "doInstall"
  /\ last.err = "none"
  /\ last.pre # cliTool[last.tool]
  /\ The(cliTool[last.tool]).path # None

\* C27: when the file at the vulnerability-result destination of an SBOM is not
\* a valid result document, an analysis of that SBOM fails, executes no binary
\* and leaves every file as it is, so that the invalid file stays in place for
\* every later call.
C27_InvalidResultSticks ==
  [][ (/\ last'.op = "grypeAnalyse"
       /\ grypeDestination(The(last'.arg)) \in DOMAIN fs
       /\ ~validResult(fs[grypeDestination(The(last'.arg))])) =>
        /\ last'.err # "none"
        /\ last'.ret = None
        /\ last'.execs = <<>>
        /\ fs' = fs ]_vars

\* the cache gate found a truncated document and the analysis failed on it
C27_Witness ==
  /\ last.op = "grypeAnalyse"
  /\ last.pre = Some(Partial)
  /\ last.err = "SyntaxError"
  /\ last.execs = <<>>
  /\ fs[The(last.dest)] = Partial

\* C28: a selectVersion that fails leaves the selected release as it was and
\* doInstall does not clear it; a doInstall that follows a failed selectVersion
\* with an earlier selection in place does not fail with 'No version selected'
\* and, when it succeeds, records the version of that earlier selection.
C28_SelectionSurvivesFailure ==
  [][ /\ (last'.op = "selectVersion" /\ last'.err # "none") => selected' = selected
      /\ last'.op = "doInstall" => selected' = selected
      /\ (/\ last.op = "selectVersion" /\ last.err # "none"
          /\ last'.op = "doInstall" /\ last'.tool = last.tool
          /\ selected[last.tool] # None) =>
           /\ last'.err # "No version selected"
           /\ last'.err = "none" =>
                The(cliTool'[last.tool]).version =
                  Some(Tail(The(selected[last.tool]).tag)) ]_vars

\* a selectVersion failed while an earlier selection was in place
C28_Witness ==
  /\ last.op = "selectVersion"
  /\ last.err # "none"
  /\ last.pre # None
  /\ selected[last.tool] = last.pre


\* C25: the vulnerability-result path derived from an SBOM artifact path is
\* never that SBOM path itself.
C25_ResultPathNotSbomPath ==
  last.op = "grypeDestination" => last.ret # last.arg

\* an image id without a `.`: the result name differs from the SBOM name by
\* its extension only
C25_Witness ==
  /\ last.op = "grypeDestination"
  /\ The(last.arg).base = <<"a", ".", "jsonpow">>
  /\ The(last.ret) = [The(last.arg) EXCEPT !.base = <<"a", ".", "json">>]

\* C26: two different SBOM files of one directory never have the same
\* vulnerability-result destination.
C26_ResultPathInjective ==
  [][ (/\ last.op = "grypeDestination" /\ last'.op = "grypeDestination"
       /\ The(last.arg).dir = The(last'.arg).dir
       /\ last.arg # last'.arg) =>
        last.ret # last'.ret ]_vars


\* C24: the lookup returns the first connection, in provider order, that is
\* started and whose first engine info is the requested engine id; entries
\* that are not started or report no engine info are never returned, and
\* without a qualifying entry the lookup fails with 'connection not found'.
C24_FirstStartedConnection ==
  last.op = "getRunningProviderContainerConnectionByEngineId" =>
    LET ps == The(last.pre).providers
        e == The(last.pre).engineId
        hits == {i \in 1..Len(ps) : /\ ps[i].status = "started"
                                    /\ Len(ps[i].infos) > 0
                                    /\ Head(ps[i].infos) = e}
    IN IF hits = {}
       THEN last.err = "connection not found" /\ last.ret = None
       ELSE /\ last.err = "none"
            /\ \E i \in hits : /\ \A j \in hits : i <= j
                               /\ last.ret = Some(ps[i].provider)

\* the first entry is stopped with the requested engine id, the second one is
\* started and is the one returned
C24_Witness ==
  /\ last.op = "getRunningProviderContainerConnectionByEngineId"
  /\ The(last.pre).engineId = "e1"
  /\ The(last.pre).providers =
       << Provider(Machine, "stopped", <<"e1">>), Provider(Docker, "started", <<"e1">>) >>
  /\ last.ret = Some(Docker)


\* the call in slot r found no file at its destination, has executed the
\* binary for it and is about to rename (SBOM) or to read (vulnerability
\* result) what the binary wrote
executedFor(r, p) ==
  /\ requests[r].pc \in {"syftRename", "grypeRead"}
  /\ requests[r].obs.pre = None
  /\ requests[r].obs.execs # <<>>
  /\ requests[r].obs.dest = Some(p)

\* C21 as stated: for each destination, at most one of the analyses in flight
\* has observed the cache miss and executed the external binary for it.
C21_SingleWriterPerKey ==
  \A r1, r2 \in Slots :
    \A p \in {sbomDestination(Machine, i) : i \in ImageIds}
               \cup {grypeDestination(sb) : sb \in SbomPaths} :
      (executedFor(r1, p) /\ executedFor(r2, p)) => r1 = r2

\* C21: the binary is executed and the destination is written only by calls
\* that observed the cache miss themselves: a call that found the file at its
\* gate executes nothing and renames nothing, whatever the other calls in
\* flight do. (Calls for one key that overlap can each observe the miss.)
C21_WrittenOnlyAfterMiss ==
  /\ \A r \in Slots :
       /\ requests[r].pc \in {"syftExec", "syftRunning", "syftWriting", "syftRename", "grypeExec"}
            => requests[r].obs.pre = None
       /\ requests[r].obs.pre # None =>
            /\ requests[r].obs.execs = <<>>
            /\ "rename" \notin requests[r].obs.steps
  /\ (last.op \in analyseOps /\ last.pre # None) =>
       /\ last.execs = <<>>
       /\ "rename" \notin last.steps

\* two calls in flight have both executed the binary for one destination
C21_Witness ==
  \E r1, r2 \in Slots :
    /\ r1 # r2
    /\ requests[r1].pc = "syftRename" /\ requests[r2].pc = "syftRename"
    /\ requests[r1].obs.dest = requests[r2].obs.dest
    /\ requests[r1].obs.pre = None /\ requests[r2].obs.pre = None

\* C22: in check the vulnerability scan is entered only with the path that
\* the SBOM scan of the same image returned, whose file is on disk; when the
\* connection lookup or the SBOM scan fails the vulnerability scanner is not
\* invoked and check fails.
C22_GrypeAfterSyft ==
  /\ \A r \in Slots :
       (requests[r].op = "check" /\ requests[r].pc \in {"grypeBegin", "grypeExec", "grypeRead"}) =>
         /\ requests[r].obs.file =
              Some(Path(<<The(requests[r].connection).providerId,
                          The(requests[r].connection).name>>,
                        <<"a", ".", "jsonpow">>))
         /\ requests[r].sbom = requests[r].obs.file
         /\ The(requests[r].obs.file) \in DOMAIN fs
         /\ "syft.analyse" \in requests[r].obs.steps
  /\ last.op = "check" =>
       /\ "grype.analyse" \in last.steps => (last.file # None /\ last.arg = last.file)
       /\ last.file = None =>
            /\ last.err # "none"
            /\ last.ret = None
            /\ "grype.analyse" \notin last.steps
            /\ \A i \in 1..Len(last.execs) : last.execs[i].bin.dir # <<"grype">>

\* a check whose SBOM scan ran the binary and failed
C22_Witness ==
  /\ last.op = "check"
  /\ last.err = "exec failed"
  /\ last.file = None
  /\ Len(last.execs) = 1
  /\ "grype.analyse" \notin last.steps

\* C29: the checks returned by check are one failed check per match of the
\* result, in match order with the match's id and severity, or the single
\* success check 'No vulnerabilities found' when the result has no match.
C29_ChecksOfResult ==
  (last.op = "check" /\ last.err = "none") =>
    /\ last.ret # None /\ last.result # None
    /\ LET checks == The(last.ret)
           matches == The(last.result).matches
       IN /\ Len(checks) > 0
          /\ IF Len(matches) = 0
             THEN checks = << [status |-> "success", name |-> "No vulnerabilities found"] >>
             ELSE /\ Len(checks) = Len(matches)
                  /\ \A i \in 1..Len(matches) :
                       /\ checks[i].status = "failed"
                       /\ Some(checks[i].name) = matches[i].vulnerability.id
                       /\ checks[i].severity = matches[i].vulnerability.severity

\* a check that returned two failed checks
C29_Witness ==
  /\ last.op = "check"
  /\ last.ret # None
  /\ Len(The(last.ret)) = 2
  /\ The(last.ret)[1].name = "CVE-1"
  /\ The(last.ret)[2].name = "CVE-3"

====
